---- MODULE Spec2Model ----
(***************************************************************************)
(* Model of flow/envs/queue_grid.py: the traffic-light grid environment     *)
(* QueueGridEnv.  Seven specifications share the module's variables:        *)
(*   Spec      the per-step controller, _apply_rl_actions;                  *)
(*   SpecInit  the initialisation loop of __init__;                         *)
(*   SpecEdge  the edge-label to edge-number conversion used by get_state;  *)
(*   SpecReroute  additional_command and _reroute_if_final_edge;            *)
(*   SpecObs   get_state of the partially observed QueueGridPOEnv;          *)
(*   SpecPhases  generate_tl_phases;                                        *)
(*   SpecNode  _get_relative_node.                                          *)
(* Time is counted in ticks: sim_step, switch_time and last_change are      *)
(* whole numbers of ticks.                                                  *)
(***************************************************************************)
EXTENDS Integers, Sequences, FiniteSets, TLC

\* ------------------------------------------------------------------------
\* Bounds
\* ------------------------------------------------------------------------
MaxLights == 2
MaxSimStep == 2
MaxSwitchTime == 2
MaxInitGrid == 6
MaxEdgeGrid == 4
MaxRerouteLights == 2
MaxLane == 1
MaxPhaseLanes == 3
MaxObsLights == 1
MaxNumObserved == 2
MaxNodeGrid == 10

\* ------------------------------------------------------------------------
\* Module-level tables of queue_grid.py
\* ------------------------------------------------------------------------
PHASE_NUM_TO_STR ==
    [k \in 0..11 |->
        CASE k = 0 -> "vertical_green"
          [] k = 6 -> "vertical_green_to_yellow"
          [] k = 1 -> "horizontal_green"
          [] k = 7 -> "horizontal_green_to_yellow"
          [] k = 2 -> "protected_left_top"
          [] k = 8 -> "protected_left_top_to_yellow"
          [] k = 3 -> "protected_left_right"
          [] k = 9 -> "protected_left_right_to_yellow"
          [] k = 4 -> "protected_left_bottom"
          [] k = 10 -> "protected_left_bottom_to_yellow"
          [] k = 5 -> "protected_left_left"
          [] OTHER -> "protected_left_left_to_yellow"]

\* values of the continuous action components, in tenths: -1.0, which both
\* thresholds take for no switch, and 0.3, which lies between them
ContinuousValues == {-10, 3}

VARIABLES
    rows,               \* self.rows
    cols,               \* self.cols
    tl_type,            \* self.tl_type
    discrete,           \* self.discrete
    sim_step,           \* self.sim_step, the duration of one step
    min_yellow_time,    \* self.min_yellow_time, assigned from switch_time
    min_switch_time,    \* self.min_switch_time, the threshold the step reads
    last_change,        \* self.last_change, per intersection
    direction,          \* self.direction, per intersection
    currently_yellow,   \* self.currently_yellow, per intersection
    phases,             \* self.phases, per intersection
    tl_state,           \* the simulator's signal state, per intersection
    tl_cmd,             \* the set_state command of the last step, or "none"
    constant_for,       \* simulated time since the signal last changed
    init_pc,            \* position of __init__ in its initialisation loop
    init_x,             \* loop variable x of __init__
    init_y,             \* loop variable y of __init__
    written,            \* indices of currently_yellow assigned by __init__
    edge,               \* the edge label last handed to _convert_edge
    edge_num,           \* what _convert_edge returned for it
    env_class,          \* the class of the environment object
    vehicles,           \* the simulator's vehicles: id -> edge, type, lane, pos
    placed,             \* the vehicles as the last additional_command met them
    kernel_calls,       \* the remove/add calls of the last additional_command
    cmd_phase,          \* "placed" until additional_command has run
    phase_type,         \* generate_tl_phases: the phase name it was given
    horiz_lanes,        \* generate_tl_phases: lanes of a horizontal approach
    vert_lanes,         \* generate_tl_phases: lanes of a vertical approach
    tl_phases,          \* generate_tl_phases: the string it returned
    num_observed,       \* self.num_observed of QueueGridPOEnv
    observed_ids,       \* self.observed_ids of QueueGridPOEnv
    observation,        \* what QueueGridPOEnv.get_state returned last
    agent_id,           \* _get_relative_node: the agent id it was given
    rel_direction,      \* _get_relative_node: the direction it was given
    node                \* _get_relative_node: the node number it returned

gridVars == <<rows, cols, tl_type, discrete, sim_step, min_yellow_time,
              min_switch_time>>
ctlVars == <<last_change, direction, currently_yellow, phases, tl_state,
             tl_cmd, constant_for>>
initVars == <<init_pc, init_x, init_y, written>>
edgeVars == <<edge, edge_num>>
rerouteVars == <<env_class, vehicles, placed, kernel_calls, cmd_phase>>
phaseVars == <<phase_type, horiz_lanes, vert_lanes, tl_phases>>
obsVars == <<num_observed, observed_ids, observation>>
nodeVars == <<agent_id, rel_direction, node>>
vars == <<gridVars, ctlVars, initVars, edgeVars, rerouteVars, phaseVars,
          obsVars, nodeVars>>

num_traffic_lights == rows * cols
Ids == 0..(num_traffic_lights - 1)

\* ------------------------------------------------------------------------
\* _apply_rl_actions
\* ------------------------------------------------------------------------
RECURSIVE Bits(_)
\* '{0:0b}'.format(a): the binary digits of a, most significant first
Bits(a) == IF a < 2 THEN <<a>> ELSE Bits(a \div 2) \o <<a % 2>>

Zeros(k) == [j \in 1..(IF k > 0 THEN k ELSE 0) |-> 0]

\* the digits with the padding zeros after them
DiscreteMaskPaddedRight(a) ==
    Bits(a) \o Zeros(num_traffic_lights - Len(Bits(a)))

\* the discrete branch: digits, left-padded with zeros to num_traffic_lights
DiscreteMask(a) == Zeros(num_traffic_lights - Len(Bits(a))) \o Bits(a)

\* the continuous branch: rl_actions > 0.0, component-wise
ContinuousMask(v) == [j \in 1..Len(v) |-> IF v[j] > 0 THEN 1 ELSE 0]

\* compute_reward: rl_actions >= 0.5, the components the penalty counts
PenaltyMask(v) == [j \in 1..Len(v) |-> IF v[j] >= 5 THEN 1 ELSE 0]

RlMask(rl_actions) ==
    IF discrete THEN DiscreteMask(rl_actions) ELSE ContinuousMask(rl_actions)

RlActions ==
    IF discrete
    THEN 0..(2 ^ num_traffic_lights - 1)
    ELSE [1..num_traffic_lights -> ContinuousValues]

\* the fields of intersection i that one iteration of the loop reads
IntersectionState(i) ==
    [last_change |-> last_change[i], direction |-> direction[i],
     currently_yellow |-> currently_yellow[i], tl_state |-> tl_state[i],
     constant_for |-> constant_for[i]]

\* self.last_change[i] += self.sim_step
YellowTimer(s) == s.last_change + sim_step

\* self.last_change[i] >= self.min_switch_time
YellowExpired(s) == YellowTimer(s) >= min_switch_time

\* the green string of the direction that was green before the yellow
GreenStateBefore(s) == IF s.direction = 0 THEN "rGrG" ELSE "GrGr"

\* the signal string sent when a yellow phase ends
GreenState(s) == IF s.direction = 0 THEN "GrGr" ELSE "rGrG"

\* the signal string sent when an intersection leaves green
YellowState(s) == IF s.direction = 0 THEN "yryr" ELSE "ryry"

\* the direction left as it was
FlipDirectionKept(d) == d

\* self.direction[i] = not self.direction[i]
FlipDirection(d) == IF d = 0 THEN 1 ELSE 0

\* simulated time the signal has been constant, one step later (saturating)
Elapsed(s) ==
    IF s.constant_for + sim_step > MaxSwitchTime THEN MaxSwitchTime
    ELSE s.constant_for + sim_step

\* a yellow branch in which action bit 1 restarts the yellow timer
YellowStepRestartable(s, action) ==
    IF action = 1
    THEN [last_change |-> 0, direction |-> s.direction,
          currently_yellow |-> 1, tl_state |-> s.tl_state,
          constant_for |-> Elapsed(s), cmd |-> "none"]
    ELSE IF YellowExpired(s)
    THEN [last_change |-> YellowTimer(s), direction |-> s.direction,
          currently_yellow |-> 0, tl_state |-> GreenState(s),
          constant_for |-> 0, cmd |-> GreenState(s)]
    ELSE [last_change |-> YellowTimer(s), direction |-> s.direction,
          currently_yellow |-> 1, tl_state |-> s.tl_state,
          constant_for |-> Elapsed(s), cmd |-> "none"]

\* the branch taken for an intersection that is currently yellow
YellowStep(s, action) ==
    IF YellowExpired(s)
    THEN [last_change |-> YellowTimer(s), direction |-> s.direction,
          currently_yellow |-> 0, tl_state |-> GreenState(s),
          constant_for |-> 0, cmd |-> GreenState(s)]
    ELSE [last_change |-> YellowTimer(s), direction |-> s.direction,
          currently_yellow |-> 1, tl_state |-> s.tl_state,
          constant_for |-> Elapsed(s), cmd |-> "none"]

\* the branch taken for an intersection that is not yellow
GreenStep(s, action) ==
    IF action = 1
    THEN [last_change |-> 0, direction |-> FlipDirection(s.direction),
          currently_yellow |-> 1, tl_state |-> YellowState(s),
          constant_for |-> 0, cmd |-> YellowState(s)]
    ELSE [last_change |-> s.last_change, direction |-> s.direction,
          currently_yellow |-> 0, tl_state |-> s.tl_state,
          constant_for |-> Elapsed(s), cmd |-> "none"]

\* an iteration in which the else branch is a second if: an intersection
\* whose yellow has just ended goes on to the green branch in the same step
StepIntersectionFallThrough(s, action) ==
    IF s.currently_yellow = 1
    THEN LET r == YellowStep(s, action)
         IN  IF r.currently_yellow = 0 THEN GreenStep(r, action) ELSE r
    ELSE GreenStep(s, action)

\* one iteration of the loop over enumerate(rl_mask)
StepIntersection(s, action) ==
    IF s.currently_yellow = 1 THEN YellowStep(s, action)
    ELSE GreenStep(s, action)

ApplyRlActions(rl_actions) ==
    LET mask == RlMask(rl_actions)
        next == [i \in Ids |->
                    StepIntersection(IntersectionState(i), mask[i + 1])]
    IN  /\ Len(mask) = num_traffic_lights
        /\ last_change' = [i \in Ids |-> next[i].last_change]
        /\ direction' = [i \in Ids |-> next[i].direction]
        /\ currently_yellow' = [i \in Ids |-> next[i].currently_yellow]
        /\ tl_state' = [i \in Ids |-> next[i].tl_state]
        /\ tl_cmd' = [i \in Ids |-> next[i].cmd]
        /\ constant_for' = [i \in Ids |-> next[i].constant_for]
        /\ UNCHANGED <<phases, gridVars, initVars, edgeVars, rerouteVars,
                       phaseVars, obsVars,
                       nodeVars>>

\* the upper bound observation_space declares for the traffic-light part
ObservationHigh == 1

\* the traffic-light part of get_state: last_change, direction and
\* currently_yellow, flattened, one after the other
TrafficLightState ==
    [k \in 1..(3 * num_traffic_lights) |->
        IF k <= num_traffic_lights THEN last_change[k - 1]
        ELSE IF k <= 2 * num_traffic_lights
        THEN direction[k - 1 - num_traffic_lights]
        ELSE currently_yellow[k - 1 - 2 * num_traffic_lights]]

\* a simulation without vehicles, before any additional_command
NoTraffic ==
    /\ env_class = "QueueGridEnv"
    /\ vehicles = <<>>
    /\ placed = <<>>
    /\ kernel_calls = <<>>
    /\ cmd_phase = "placed"

\* generate_tl_phases has not been called
NoPhaseRequest ==
    /\ phase_type = "none"
    /\ horiz_lanes = 1
    /\ vert_lanes = 1
    /\ tl_phases = <<>>

\* QueueGridPOEnv.__init__: num_observed defaults to 2, observed_ids = []
NoObservation ==
    /\ num_observed = 2
    /\ observed_ids = <<>>
    /\ observation = <<>>

\* _get_relative_node has not been called
NoNodeQuery ==
    /\ agent_id = <<>>
    /\ rel_direction = "none"
    /\ node = -1

\* ------------------------------------------------------------------------
\* The controller: the state after construction, then one step at a time
\* ------------------------------------------------------------------------
\* the attributes _apply_rl_actions and get_state read that queue_grid.py
\* itself never assigns: the per-intersection arrays direction and
\* currently_yellow (all intersections start vertical and not yellow), the
\* step duration sim_step, and the threshold min_switch_time, whose value
\* nothing in the file ties to switch_time
UnassignedAttributes ==
    /\ sim_step \in 1..MaxSimStep
    /\ min_switch_time \in 1..MaxSwitchTime
    /\ direction = [i \in Ids |-> 0]
    /\ currently_yellow = [i \in Ids |-> 0]

\* the state __init__ leaves behind
Init ==
    /\ rows \in 1..MaxLights
    /\ cols \in 1..MaxLights
    /\ rows * cols <= MaxLights
    /\ tl_type = "controlled"
    /\ discrete \in BOOLEAN
    /\ min_yellow_time \in 1..MaxSwitchTime
    /\ last_change = [i \in Ids |-> 0]
    /\ phases = [i \in Ids |-> 0]
    /\ tl_state = [i \in Ids |-> PHASE_NUM_TO_STR[0]]
    /\ tl_cmd = [i \in Ids |-> "none"]
    /\ constant_for = [i \in Ids |-> 0]
    /\ UnassignedAttributes
    /\ init_pc = "done"
    /\ init_x = 0
    /\ init_y = 0
    /\ written = {}
    /\ edge = <<>>
    /\ edge_num = 0
    /\ NoTraffic
    /\ NoPhaseRequest
    /\ NoObservation
    /\ NoNodeQuery

Next == \E rl_actions \in RlActions : ApplyRlActions(rl_actions)

Spec == Init /\ [][Next]_vars

\* ------------------------------------------------------------------------
\* __init__: the loop that initialises the traffic lights
\* ------------------------------------------------------------------------
\* the linear index of node (x.y): (x - 1) + (y - 1) * cols
NodeIndex(x, y) == (x - 1) + (y - 1) * cols

\* the index used in self.currently_yellow[y * self.cols + x] = 0
YellowIndex(x, y) == y * cols + x

\* the state on entry to __init__'s loop: the arrays are allocated and no
\* signal state has been set
InitStart ==
    /\ rows \in 1..MaxInitGrid
    /\ cols \in 1..MaxInitGrid
    /\ tl_type \in {"controlled", "actuated"}
    /\ discrete = FALSE
    /\ sim_step = 1
    /\ min_yellow_time = 1
    /\ min_switch_time = 1
    /\ last_change = [i \in Ids |-> 0]
    /\ direction = [i \in Ids |-> 0]
    /\ currently_yellow = [i \in Ids |-> 0]
    /\ phases = [i \in Ids |-> 0]
    /\ tl_state = [i \in Ids |-> "unset"]
    /\ tl_cmd = [i \in Ids |-> "none"]
    /\ constant_for = [i \in Ids |-> 0]
    /\ init_pc = "start"
    /\ init_x = 0
    /\ init_y = 0
    /\ written = {}
    /\ edge = <<>>
    /\ edge_num = 0
    /\ NoTraffic
    /\ NoPhaseRequest
    /\ NoObservation
    /\ NoNodeQuery

\* if self.tl_type != "actuated": enter the loops at x = 1, y = 1
InitEnter ==
    /\ init_pc = "start"
    /\ IF tl_type # "actuated"
       THEN init_pc' = "loop" /\ init_x' = 1 /\ init_y' = 1
       ELSE init_pc' = "done" /\ UNCHANGED <<init_x, init_y>>
    /\ UNCHANGED <<written, gridVars, ctlVars, edgeVars, rerouteVars,
                   phaseVars, obsVars,
                   nodeVars>>

\* one iteration of the inner loop: set_state on node (x.y), then the
\* assignment to currently_yellow, which raises IndexError out of range
InitLoopBody ==
    /\ init_pc = "loop"
    /\ tl_state' = [tl_state EXCEPT ![NodeIndex(init_x, init_y)] =
                        PHASE_NUM_TO_STR[0]]
    /\ written' = written \cup {YellowIndex(init_x, init_y)}
    /\ IF YellowIndex(init_x, init_y) \notin Ids
       THEN /\ init_pc' = "error"
            /\ UNCHANGED <<currently_yellow, init_x, init_y>>
       ELSE /\ currently_yellow' =
                  [currently_yellow EXCEPT ![YellowIndex(init_x, init_y)] = 0]
            /\ IF init_y < rows
               THEN /\ init_y' = init_y + 1
                    /\ UNCHANGED <<init_x, init_pc>>
               ELSE IF init_x < cols
               THEN /\ init_x' = init_x + 1
                    /\ init_y' = 1
                    /\ UNCHANGED init_pc
               ELSE /\ init_pc' = "done"
                    /\ UNCHANGED <<init_x, init_y>>
    /\ UNCHANGED <<last_change, direction, phases, tl_cmd, constant_for,
                   gridVars, edgeVars, rerouteVars, phaseVars, obsVars,
                   nodeVars>>

NextInit == InitEnter \/ InitLoopBody

SpecInit == InitStart /\ [][NextInit]_vars

\* C8: after construction with tl_type not "actuated" the loop has run to
\* its end, it has written exactly the indices 0 .. rows*cols-1, and every
\* intersection is in vertical_green with dwell_time 0 and is_yellow 0.
C8_InitialisedInRange ==
    (tl_type # "actuated" /\ init_pc \in {"done", "error"}) =>
        /\ init_pc = "done"
        /\ written = Ids
        /\ \A i \in Ids :
              /\ tl_state[i] = PHASE_NUM_TO_STR[0]
              /\ last_change[i] = 0
              /\ currently_yellow[i] = 0

\* ------------------------------------------------------------------------
\* _convert_edge / _split_edge: edge labels are sequences of characters
\* ------------------------------------------------------------------------
DigitChars == <<"0", "1", "2", "3", "4", "5", "6", "7", "8", "9">>

Letters ==
    {"a", "b", "c", "d", "e", "f", "g", "h", "i", "j", "k", "l", "m",
     "n", "o", "p", "q", "r", "s", "t", "u", "v", "w", "x", "y", "z",
     "A", "B", "C", "D", "E", "F", "G", "H", "I", "J", "K", "L", "M",
     "N", "O", "P", "Q", "R", "S", "T", "U", "V", "W", "X", "Y", "Z"}

RECURSIVE FormatInt(_)
\* "{}".format(n) for n >= 0
FormatInt(n) ==
    IF n < 10 THEN <<DigitChars[n + 1]>>
    ELSE FormatInt(n \div 10) \o <<DigitChars[(n % 10) + 1]>>

\* int(c) for one character: its digit value, "ValueError" for a non-digit
DigitValue(c) ==
    IF \E d \in 1..10 : DigitChars[d] = c
    THEN (CHOOSE d \in 1..10 : DigitChars[d] = c) - 1
    ELSE "ValueError"

RECURSIVE ParseInt(_)
\* int(x) for a non-empty sequence of digits
ParseInt(x) ==
    IF Len(x) = 1 THEN DigitValue(x[1])
    ELSE 10 * ParseInt(SubSeq(x, 1, Len(x) - 1)) + DigitValue(x[Len(x)])

RECURSIVE LetterPrefixLen(_)
\* re.compile(r"[a-zA-Z]+").match(edge): the length of the leading letters
LetterPrefixLen(x) ==
    IF x = <<>> \/ x[1] \notin Letters THEN 0
    ELSE 1 + LetterPrefixLen(Tail(x))

RECURSIVE SplitUnderscore(_)
\* x.split('_')
SplitUnderscore(x) ==
    IF \A k \in 1..Len(x) : x[k] # "_" THEN <<x>>
    ELSE LET k == CHOOSE k \in 1..Len(x) :
                      x[k] = "_" /\ \A j \in 1..(k - 1) : x[j] # "_"
         IN  <<SubSeq(x, 1, k - 1)>>
                 \o SplitUnderscore(SubSeq(x, k + 1, Len(x)))

Chars(type) ==
    CASE type = "bot" -> <<"b", "o", "t">>
      [] type = "top" -> <<"t", "o", "p">>
      [] type = "left" -> <<"l", "e", "f", "t">>
      [] type = "right" -> <<"r", "i", "g", "h", "t">>
      [] type = "center" -> <<"c", "e", "n", "t", "e", "r">>
      [] type = "mid" -> <<"m", "i", "d">>

\* the label the network gives a road edge: "bot{row}_{col}" and so on
EdgeLabel(type, row, col) ==
    Chars(type) \o FormatInt(row) \o <<"_">> \o FormatInt(col)

\* the label of an edge inside intersection i: ":center{i}_0"
CenterLabel(i) ==
    <<":">> \o Chars("center") \o FormatInt(i) \o <<"_", "0">>

\* the edges of a grid: row roads bot/top, column roads left/right, and
\* one center edge per intersection
RoadEdgeKeys ==
    [type : {"bot", "top"}, row : 0..(rows - 1), col : 0..cols]
    \cup [type : {"left", "right"}, row : 0..rows, col : 0..(cols - 1)]
Label(k) == EdgeLabel(k.type, k.row, k.col)
RoadEdges == {Label(k) : k \in RoadEdgeKeys}
CenterEdges == {CenterLabel(i) : i \in Ids}
ValidEdges == RoadEdges \cup CenterEdges

\* labels that name no edge of the grid: a type that is none of the five,
\* or a row or column index one beyond the range of its type
InvalidEdgeKeys ==
    [type : {"mid"}, row : 0..rows, col : 0..cols]
    \cup [type : {"bot", "top"}, row : {rows}, col : 0..cols]
    \cup [type : {"bot", "top"}, row : 0..(rows - 1), col : {cols + 1}]
    \cup [type : {"left", "right"}, row : {rows + 1}, col : 0..(cols - 1)]
    \cup [type : {"left", "right"}, row : 0..rows, col : {cols}]
InvalidEdges == {Label(k) : k \in InvalidEdgeKeys}

\* self.k.network.network.num_edges
num_edges == Cardinality(ValidEdges)

\* pattern.match(edge).group()
EdgeType(e) == SubSeq(e, 1, LetterPrefixLen(e))

\* [int(x) for x in edge.split(edge_type)[1].split('_')]
EdgeIndices(e) ==
    LET parts == SplitUnderscore(SubSeq(e, LetterPrefixLen(e) + 1, Len(e)))
    IN  [k \in 1..Len(parts) |-> ParseInt(parts[k])]

\* int(edge.split("center")[1][0]): the first character after ":center"
CenterIndex(e) == DigitValue(e[Len(Chars("center")) + 2])

\* the number of road edges, after which the center edges are numbered
CenterBase == ((cols + 1) * rows * 2) + ((rows + 1) * cols * 2)

\* rows_below: the edges of the row roads below row_index
RowsBelow(row_index) == 2 * (cols + 1) * row_index

\* cols_below of the left/right branch used for a bot/top edge
ColsBelowRowRoadSwapped(row_index) == 2 * (cols * row_index)

\* cols_below for a bot/top edge
ColsBelowRowRoad(row_index) == 2 * (cols * (row_index + 1))

\* cols_below for a left/right edge
ColsBelowColRoad(row_index) == 2 * (cols * row_index)

SplitEdge(e) ==
    IF e # <<>>
    THEN IF e[1] = ":"
         THEN CenterBase + CenterIndex(e) + 1
         ELSE LET edge_type == EdgeType(e)
                  row_index == EdgeIndices(e)[1]
                  col_index == EdgeIndices(e)[2]
              IN  IF edge_type \in {Chars("bot"), Chars("top")}
                  THEN LET n == RowsBelow(row_index)
                                  + ColsBelowRowRoad(row_index)
                                  + 2 * col_index + 1
                       IN  IF edge_type = Chars("bot") THEN n ELSE n + 1
                  ELSE IF edge_type \in {Chars("left"), Chars("right")}
                  THEN LET n == RowsBelow(row_index)
                                  + ColsBelowColRoad(row_index)
                                  + 2 * col_index + 1
                       IN  IF edge_type = Chars("left") THEN n ELSE n + 1
                  ELSE "None"
    ELSE 0

\* how _split_edge ends for a label: it returns an integer, or falls off
\* its end and returns None; it has no raise statement
ReturnKind(e) ==
    IF e # <<>> /\ e[1] # ":"
       /\ EdgeType(e) \notin {Chars("bot"), Chars("top"),
                              Chars("left"), Chars("right")}
    THEN "None"
    ELSE "int"

\* _convert_edge on one label, as get_state calls it for a vehicle's edge
ConvertEdge(e) ==
    /\ edge' = e
    /\ edge_num' = SplitEdge(e)
    /\ UNCHANGED <<gridVars, ctlVars, initVars, rerouteVars, phaseVars,
                   obsVars, nodeVars>>

InitEdge ==
    /\ rows \in 1..MaxEdgeGrid
    /\ cols \in 1..MaxEdgeGrid
    /\ tl_type = "actuated"
    /\ discrete = FALSE
    /\ sim_step = 1
    /\ min_yellow_time = 1
    /\ min_switch_time = 1
    /\ last_change = [i \in Ids |-> 0]
    /\ direction = [i \in Ids |-> 0]
    /\ currently_yellow = [i \in Ids |-> 0]
    /\ phases = [i \in Ids |-> 0]
    /\ tl_state = [i \in Ids |-> "unset"]
    /\ tl_cmd = [i \in Ids |-> "none"]
    /\ constant_for = [i \in Ids |-> 0]
    /\ init_pc = "done"
    /\ init_x = 0
    /\ init_y = 0
    /\ written = {}
    /\ edge = <<>>
    /\ edge_num = 0
    /\ NoTraffic
    /\ NoPhaseRequest
    /\ NoObservation
    /\ NoNodeQuery

NextEdge ==
    \E e \in ValidEdges \cup InvalidEdges \cup {<<>>} : ConvertEdge(e)

SpecEdge == InitEdge /\ [][NextEdge]_vars

\* C9: the conversion sends the valid labels of the grid to distinct
\* integers, its image is exactly 0 .. num_edges-1, and so a converted
\* index divided by num_edges-1 lies in [0, 1].
C9_BijectionOntoRange ==
    edge \in ValidEdges =>
        /\ \A e1, e2 \in ValidEdges :
              e1 # e2 => SplitEdge(e1) # SplitEdge(e2)
        /\ {SplitEdge(e) : e \in ValidEdges} = 0..(num_edges - 1)
        /\ edge_num \in 0..(num_edges - 1)

IsRowRoad(k) == k.type \in {"bot", "top"}
IsColumnRoad(k) == k.type \in {"left", "right"}

\* the converted edge comes before road edge k2 in the numbering
ConvertedBefore(k2) == edge_num < SplitEdge(Label(k2))

\* indices increase with the column within a row, then with the row
IncreasesByColumnThenRow(k1, k2) ==
    /\ (k1.row = k2.row /\ IsRowRoad(k1) = IsRowRoad(k2)
            /\ k1.col < k2.col) => ConvertedBefore(k2)
    /\ k1.row < k2.row => ConvertedBefore(k2)

\* C10 as stated: indices increase with the column within a row and then
\* with the row, and in a row-block every bot/top edge comes before every
\* left/right edge of that row.
C10_RowRoadsFirst ==
    \A k1, k2 \in RoadEdgeKeys :
        edge = Label(k1) =>
            /\ IncreasesByColumnThenRow(k1, k2)
            /\ (k1.row = k2.row /\ IsRowRoad(k1) /\ IsColumnRoad(k2))
                   => ConvertedBefore(k2)

\* C10 amended: indices increase with the column within a row and then
\* with the row, and in a row-block every left/right edge comes before
\* every bot/top edge of that row.
C10_ColumnRoadsFirst ==
    \A k1, k2 \in RoadEdgeKeys :
        edge = Label(k1) =>
            /\ IncreasesByColumnThenRow(k1, k2)
            /\ (k1.row = k2.row /\ IsColumnRoad(k1) /\ IsRowRoad(k2))
                   => ConvertedBefore(k2)

\* the last left/right edge of row 1 was converted and the first bot edge
\* of row 1 has the next number
C10_Witness ==
    /\ rows >= 2
    /\ cols >= 2
    /\ edge = EdgeLabel("right", 1, cols - 1)
    /\ edge_num + 1 = SplitEdge(EdgeLabel("bot", 1, 0))

\* C11: the center edge of every intersection i, also for i >= 10, is
\* numbered after every road edge, and the center edges are numbered in
\* strictly increasing order of i.
C11_CenterEdgesInOrder ==
    \A i \in Ids :
        edge = CenterLabel(i) =>
            /\ \A k \in RoadEdgeKeys : SplitEdge(Label(k)) < edge_num
            /\ \A j \in 0..(i - 1) : SplitEdge(CenterLabel(j)) < edge_num

\* C12: converting a label whose type is unknown or whose row or column
\* index is outside the grid fails with an invalid-edge error.
C12_InvalidEdgeRejected ==
    edge \in InvalidEdges => ReturnKind(edge) = "InvalidEdgeError"

\* ------------------------------------------------------------------------
\* additional_command / _reroute_if_final_edge: vehicles that reached the
\* end of their route are put back at its start
\* ------------------------------------------------------------------------
\* self.k.vehicle.get_ids(), in the order the loop visits them
VehOrder == <<"veh_0", "veh_1">>
VehIds == {VehOrder[k] : k \in 1..Len(VehOrder)}
VehTypes == {"human", "followerstopper"}
Positions == {0, 7}

\* route_id = None
NoRoute == <<>>

\* the simulator's remove(veh_id): the vehicle leaves the network
KernelRemove(k, veh_id) ==
    [vehicles |-> [v \in (DOMAIN k.vehicles) \ {veh_id} |-> k.vehicles[v]],
     calls |-> Append(k.calls, <<"remove", veh_id>>)]

\* the simulator's add(veh_id, edge, type_id, lane, pos, speed): the vehicle
\* enters the edge on the lane and at the position the strings spell
KernelAdd(k, veh_id, edge_id, type_id, lane, pos) ==
    [vehicles |->
        [v \in (DOMAIN k.vehicles) \cup {veh_id} |->
            IF v = veh_id
            THEN [edge |-> edge_id, type |-> type_id,
                  lane |-> ParseInt(lane), pos |-> ParseInt(pos)]
            ELSE k.vehicles[v]],
     calls |-> Append(k.calls, <<"add", veh_id>>)]

\* a route_id that keeps the vehicle on the edge it is on
RouteLabelUnmoved(edge_type, row_index, col_index) ==
    CASE edge_type = Chars("bot") -> EdgeLabel("bot", row_index, col_index)
      [] edge_type = Chars("top") -> EdgeLabel("top", row_index, col_index)
      [] edge_type = Chars("left") -> EdgeLabel("left", row_index, col_index)
      [] OTHER -> EdgeLabel("right", row_index, col_index)

\* the route_id formatted for an edge type that reached its final edge
RouteLabel(edge_type, row_index, col_index) ==
    CASE edge_type = Chars("bot") -> EdgeLabel("bot", row_index, 0)
      [] edge_type = Chars("top") -> EdgeLabel("top", row_index, cols)
      [] edge_type = Chars("left") -> EdgeLabel("left", rows, col_index)
      [] OTHER -> EdgeLabel("right", 0, col_index)

\* a test that takes every edge on the boundary of the grid for a final edge
OnBoundaryEdge(edge_type, row_index, col_index) ==
    \/ edge_type \in {Chars("bot"), Chars("top")} /\ col_index \in {0, cols}
    \/ edge_type \in {Chars("left"), Chars("right")}
          /\ row_index \in {0, rows}

\* the conditions of the if/elif chain that assigns route_id
OnFinalEdge(edge_type, row_index, col_index) ==
    \/ edge_type = Chars("bot") /\ col_index = cols
    \/ edge_type = Chars("top") /\ col_index = 0
    \/ edge_type = Chars("left") /\ row_index = 0
    \/ edge_type = Chars("right") /\ row_index = rows

\* route_id for the edge a vehicle is on
RouteId(e) ==
    LET edge_type == EdgeType(e)
        row_index == EdgeIndices(e)[1]
        col_index == EdgeIndices(e)[2]
    IN  IF OnFinalEdge(edge_type, row_index, col_index)
        THEN RouteLabel(edge_type, row_index, col_index)
        ELSE NoRoute

\* a rerouting that removes the vehicle and does not bring it back
RemoveIfFinalEdge(k, veh_id) ==
    LET e == k.vehicles[veh_id].edge
    IN  IF e = <<>> \/ e[1] = ":" \/ RouteId(e) = NoRoute
        THEN k
        ELSE KernelRemove(k, veh_id)

\* _reroute_if_final_edge(veh_id) on the simulator state k
RerouteIfFinalEdge(k, veh_id) ==
    LET e == k.vehicles[veh_id].edge
    IN  IF e = <<>>
        THEN k
        ELSE IF e[1] = ":"
        THEN k
        ELSE LET route_id == RouteId(e)
             IN  IF route_id # NoRoute
                 THEN LET type_id == k.vehicles[veh_id].type
                          lane_index == k.vehicles[veh_id].lane
                      IN  KernelAdd(KernelRemove(k, veh_id), veh_id,
                                    route_id, type_id,
                                    FormatInt(lane_index), <<"0">>)
                 ELSE k

RECURSIVE RerouteFrom(_, _)
\* for veh_id in self.k.vehicle.get_ids(): from the n-th id on
RerouteFrom(k, n) ==
    IF n > Len(VehOrder) THEN k
    ELSE RerouteFrom(RerouteIfFinalEdge(k, VehOrder[n]), n + 1)

\* QueueGridPOEnv.additional_command: set_observed on the observed ids,
\* which moves no vehicle
SetObservedOnly(k) == k

\* additional_command of the environment's class, once per step
AdditionalCommand ==
    LET k == [vehicles |-> vehicles, calls |-> <<>>]
        after == IF env_class = "QueueGridPOEnv"
                 THEN SetObservedOnly(k)
                 ELSE RerouteFrom(k, 1)
    IN  /\ placed' = vehicles
        /\ vehicles' = after.vehicles
        /\ kernel_calls' = after.calls
        /\ cmd_phase' = "commanded"
        /\ UNCHANGED <<env_class, gridVars, ctlVars, initVars, edgeVars,
                       phaseVars, obsVars,
                       nodeVars>>

\* a grid with every vehicle somewhere in the network, or not on any edge
InitReroute ==
    /\ rows \in 1..MaxRerouteLights
    /\ cols \in 1..MaxRerouteLights
    /\ rows * cols <= MaxRerouteLights
    /\ tl_type = "actuated"
    /\ discrete = FALSE
    /\ sim_step = 1
    /\ min_yellow_time = 1
    /\ min_switch_time = 1
    /\ last_change = [i \in Ids |-> 0]
    /\ direction = [i \in Ids |-> 0]
    /\ currently_yellow = [i \in Ids |-> 0]
    /\ phases = [i \in Ids |-> 0]
    /\ tl_state = [i \in Ids |-> "unset"]
    /\ tl_cmd = [i \in Ids |-> "none"]
    /\ constant_for = [i \in Ids |-> 0]
    /\ init_pc = "done"
    /\ init_x = 0
    /\ init_y = 0
    /\ written = {}
    /\ edge = <<>>
    /\ edge_num = 0
    /\ env_class \in {"QueueGridEnv", "QueueGridPOEnv"}
    /\ vehicles \in [VehIds -> [edge : ValidEdges \cup {<<>>},
                                type : VehTypes,
                                lane : 0..MaxLane,
                                pos : Positions]]
    /\ vehicles["veh_0"].type = "human"
    /\ vehicles["veh_1"].type = "followerstopper"
    /\ placed = vehicles
    /\ kernel_calls = <<>>
    /\ cmd_phase = "placed"
    /\ NoPhaseRequest
    /\ NoObservation
    /\ NoNodeQuery

NextReroute == AdditionalCommand

SpecReroute == InitReroute /\ [][NextReroute]_vars

\* ------------------------------------------------------------------------
\* Properties of the rerouting (checked under SpecReroute)
\* ------------------------------------------------------------------------
\* the last edge of each route and the first edge of the same route
TerminalEdgeKeys ==
    [type : {"bot"}, row : 0..(rows - 1), col : {cols}]
    \cup [type : {"top"}, row : 0..(rows - 1), col : {0}]
    \cup [type : {"left"}, row : {0}, col : 0..(cols - 1)]
    \cup [type : {"right"}, row : {rows}, col : 0..(cols - 1)]
TerminalEdges == {Label(k) : k \in TerminalEdgeKeys}
EntranceOf(k) ==
    CASE k.type = "bot" -> EdgeLabel("bot", k.row, 0)
      [] k.type = "top" -> EdgeLabel("top", k.row, cols)
      [] k.type = "left" -> EdgeLabel("left", rows, k.col)
      [] k.type = "right" -> EdgeLabel("right", 0, k.col)
Removed(v) == \E n \in 1..Len(kernel_calls) : kernel_calls[n] = <<"remove", v>>
Added(v) == \E n \in 1..Len(kernel_calls) : kernel_calls[n] = <<"add", v>>

\* C13: additional_command leaves the set of vehicle ids, and so the number
\* of vehicles, as it found them, and each remove call is followed at once
\* by the add call of the same vehicle id.
C13_VehiclesPreserved ==
    cmd_phase = "commanded" =>
        /\ DOMAIN vehicles = DOMAIN placed
        /\ Cardinality(DOMAIN vehicles) = Cardinality(DOMAIN placed)
        /\ \A n \in 1..Len(kernel_calls) :
              kernel_calls[n][1] = "remove" =>
                  /\ n < Len(kernel_calls)
                  /\ kernel_calls[n + 1] = <<"add", kernel_calls[n][2]>>

C13_Witness ==
    /\ cmd_phase = "commanded"
    /\ env_class = "QueueGridEnv"
    /\ \A v \in VehIds : Removed(v) /\ placed[v].edge \in TerminalEdges

\* C14: in the base environment a vehicle met on the terminal edge of its
\* route is removed and added again at position 0 of the entrance edge of
\* the same row or column, with its edge type, vehicle type and lane; the
\* entrance edge is an edge of the grid and not a terminal edge.
C14_TerminalToEntrance ==
    (cmd_phase = "commanded" /\ env_class = "QueueGridEnv") =>
        \A v \in DOMAIN placed : \A k \in TerminalEdgeKeys :
            placed[v].edge = Label(k) =>
                /\ Removed(v) /\ Added(v)
                /\ v \in DOMAIN vehicles
                /\ vehicles[v] = [edge |-> EntranceOf(k),
                                  type |-> placed[v].type,
                                  lane |-> placed[v].lane,
                                  pos |-> 0]
                /\ EntranceOf(k) \in ValidEdges
                /\ EntranceOf(k) \notin TerminalEdges

C14_Witness ==
    /\ cmd_phase = "commanded"
    /\ env_class = "QueueGridEnv"
    /\ rows = 1 /\ cols = 2
    /\ placed["veh_0"] = [edge |-> EdgeLabel("bot", 0, 2), type |-> "human",
                          lane |-> 1, pos |-> 7]
    /\ vehicles["veh_0"].edge = EdgeLabel("bot", 0, 0)
    /\ placed["veh_1"].edge = EdgeLabel("right", 1, 1)
    /\ vehicles["veh_1"].edge = EdgeLabel("right", 0, 1)

\* C15: additional_command makes no remove and no add for a vehicle on a
\* center edge, on no edge, or on a road edge that is not the terminal edge
\* of its route, and leaves its edge, position, lane and type as they were.
C15_OthersUntouched ==
    cmd_phase = "commanded" =>
        \A v \in DOMAIN placed :
            placed[v].edge \notin TerminalEdges =>
                /\ ~Removed(v) /\ ~Added(v)
                /\ v \in DOMAIN vehicles
                /\ vehicles[v] = placed[v]

C15_Witness ==
    /\ cmd_phase = "commanded"
    /\ env_class = "QueueGridEnv"
    /\ rows = 2
    /\ placed["veh_0"].edge = EdgeLabel("top", 1, 0)
    /\ Removed("veh_0")
    /\ placed["veh_1"] = [edge |-> EdgeLabel("bot", 1, 0),
                          type |-> "followerstopper", lane |-> 1, pos |-> 7]
    /\ vehicles["veh_1"] = placed["veh_1"]

\* C16: in either environment class, after additional_command no vehicle
\* is left on the terminal edge it was met on: it stands at position 0 of
\* the entrance edge of its route, and the vehicles are as many as before.
C16_PartialEnvReroutes ==
    cmd_phase = "commanded" =>
        /\ Cardinality(DOMAIN vehicles) = Cardinality(DOMAIN placed)
        /\ \A v \in DOMAIN placed : \A k \in TerminalEdgeKeys :
              placed[v].edge = Label(k) =>
                  /\ v \in DOMAIN vehicles
                  /\ vehicles[v].edge = EntranceOf(k)
                  /\ vehicles[v].pos = 0

\* ------------------------------------------------------------------------
\* generate_tl_phases: the light string of a phase type, one character per
\* lane, as a sequence of characters
\* ------------------------------------------------------------------------
\* n * c for a one-character string c
Rep(n, c) == [j \in 1..n |-> c]

PhaseTypes == {PHASE_NUM_TO_STR[k] : k \in 0..11}

\* the four operands of the return statement of each branch, in order
PhaseSegments(type, h_lanes, v_lanes) ==
    CASE type = "vertical_green" ->
            LET vertical == <<"G">> \o Rep(v_lanes, "G") \o <<"r">>
                horizontal == <<"g">> \o Rep(h_lanes, "r") \o <<"r">>
            IN  <<vertical, horizontal, vertical, horizontal>>
      [] type = "vertical_green_to_yellow" ->
            LET horizontal == <<"G">> \o Rep(v_lanes, "G") \o <<"r">>
                vertical == <<"g">> \o Rep(h_lanes, "y") \o <<"r">>
            IN  <<vertical, horizontal, vertical, horizontal>>
      [] type = "horizontal_green" ->
            LET horizontal == <<"G">> \o Rep(v_lanes, "G") \o <<"r">>
                vertical == <<"g">> \o Rep(h_lanes, "r") \o <<"r">>
            IN  <<vertical, horizontal, vertical, horizontal>>
      [] type = "horizontal_green_to_yellow" ->
            LET horizontal == <<"g">> \o Rep(v_lanes, "y") \o <<"r">>
                vertical == <<"g">> \o Rep(h_lanes, "r") \o <<"r">>
            IN  <<vertical, horizontal, vertical, horizontal>>
      [] type = "protected_left_top" ->
            LET top == <<"G">> \o Rep(v_lanes, "G") \o <<"G">>
                bot == <<"g">> \o Rep(v_lanes, "r") \o <<"r">>
                horizontal == <<"g">> \o Rep(h_lanes, "r") \o <<"r">>
            IN  <<top, horizontal, bot, horizontal>>
      [] type = "protected_left_top_to_yellow" ->
            LET top == <<"g">> \o Rep(v_lanes, "y") \o <<"y">>
                bot == <<"g">> \o Rep(v_lanes, "r") \o <<"r">>
                horizontal == <<"g">> \o Rep(h_lanes, "r") \o <<"r">>
            IN  <<top, horizontal, bot, horizontal>>
      [] type = "protected_left_right" ->
            LET vertical == <<"g">> \o Rep(v_lanes, "r") \o <<"r">>
                left == <<"g">> \o Rep(h_lanes, "r") \o <<"r">>
                right == <<"g">> \o Rep(h_lanes, "G") \o <<"G">>
            IN  <<vertical, right, vertical, left>>
      [] type = "protected_left_right_to_yellow" ->
            LET vertical == <<"g">> \o Rep(v_lanes, "r") \o <<"r">>
                left == <<"g">> \o Rep(h_lanes, "r") \o <<"r">>
                right == <<"g">> \o Rep(h_lanes, "y") \o <<"y">>
            IN  <<vertical, right, vertical, left>>
      [] type = "protected_left_bottom" ->
            LET bot == <<"G">> \o Rep(v_lanes, "G") \o <<"G">>
                top == <<"g">> \o Rep(v_lanes, "r") \o <<"r">>
                horizontal == <<"g">> \o Rep(h_lanes, "r") \o <<"r">>
            IN  <<top, horizontal, bot, horizontal>>
      [] type = "protected_left_bottom_to_yellow" ->
            LET bot == <<"g">> \o Rep(v_lanes, "y") \o <<"y">>
                top == <<"g">> \o Rep(v_lanes, "r") \o <<"r">>
                horizontal == <<"g">> \o Rep(h_lanes, "r") \o <<"r">>
            IN  <<top, horizontal, bot, horizontal>>
      [] type = "protected_left_left" ->
            LET vertical == <<"g">> \o Rep(v_lanes, "r") \o <<"r">>
                right == <<"g">> \o Rep(h_lanes, "r") \o <<"r">>
                left == <<"g">> \o Rep(h_lanes, "G") \o <<"G">>
            IN  <<vertical, right, vertical, left>>
      [] type = "protected_left_left_to_yellow" ->
            LET vertical == <<"g">> \o Rep(v_lanes, "r") \o <<"r">>
                right == <<"g">> \o Rep(h_lanes, "r") \o <<"r">>
                left == <<"g">> \o Rep(h_lanes, "y") \o <<"y">>
            IN  <<vertical, right, vertical, left>>

\* phase names the if/elif chain has no branch for
UnsupportedPhaseTypes == {"all_red", "protected_left"}

\* the value None, which no light string equals
NoPhases == <<>>

\* how generate_tl_phases ends: a branch returns a string, or no branch
\* matches and the function falls off its end, returning None; it has no
\* else branch and no raise statement
PhaseReturnKind(type) == IF type \in PhaseTypes THEN "str" ELSE "None"

\* the value the function returns: the four operands joined, or None
GenerateTlPhases(type, h_lanes, v_lanes) ==
    IF type \in PhaseTypes
    THEN LET seg == PhaseSegments(type, h_lanes, v_lanes)
         IN  seg[1] \o seg[2] \o seg[3] \o seg[4]
    ELSE NoPhases

\* one call of generate_tl_phases
CallGenerateTlPhases(type) ==
    /\ phase_type' = type
    /\ tl_phases' = GenerateTlPhases(type, horiz_lanes, vert_lanes)
    /\ UNCHANGED <<horiz_lanes, vert_lanes, gridVars, ctlVars, initVars,
                   edgeVars, rerouteVars, obsVars, nodeVars>>

InitPhases ==
    /\ rows = 1
    /\ cols = 1
    /\ tl_type = "actuated"
    /\ discrete = FALSE
    /\ sim_step = 1
    /\ min_yellow_time = 1
    /\ min_switch_time = 1
    /\ last_change = [i \in Ids |-> 0]
    /\ direction = [i \in Ids |-> 0]
    /\ currently_yellow = [i \in Ids |-> 0]
    /\ phases = [i \in Ids |-> 0]
    /\ tl_state = [i \in Ids |-> "unset"]
    /\ tl_cmd = [i \in Ids |-> "none"]
    /\ constant_for = [i \in Ids |-> 0]
    /\ init_pc = "done"
    /\ init_x = 0
    /\ init_y = 0
    /\ written = {}
    /\ edge = <<>>
    /\ edge_num = 0
    /\ NoTraffic
    /\ phase_type = "none"
    /\ horiz_lanes \in 1..MaxPhaseLanes
    /\ vert_lanes \in 1..MaxPhaseLanes
    /\ tl_phases = <<>>
    /\ NoObservation
    /\ NoNodeQuery

NextPhases ==
    \E type \in PhaseTypes \cup UnsupportedPhaseTypes :
        CallGenerateTlPhases(type)

SpecPhases == InitPhases /\ [][NextPhases]_vars

\* the characters shown to the lanes that go straight on: those between
\* the right-turn lane (first) and the left-turn lane (last) of an approach
Straights(segment) == {segment[j] : j \in 2..(Len(segment) - 1)}

\* C20: in the string generate_tl_phases returns, the straight lanes of
\* one flow direction never show 'G' while the straight lanes of the other
\* direction show 'G' or 'y'; for vertical_green_to_yellow the vertical
\* straight lanes show 'y' and the horizontal straight lanes show 'r'.
C20_NoConflictingGreen ==
    phase_type \in PhaseTypes =>
        LET seg == PhaseSegments(phase_type, horiz_lanes, vert_lanes)
            vertical == Straights(seg[1]) \cup Straights(seg[3])
            horizontal == Straights(seg[2]) \cup Straights(seg[4])
        IN  /\ tl_phases = seg[1] \o seg[2] \o seg[3] \o seg[4]
            /\ ~("G" \in vertical /\ horizontal \cap {"G", "y"} # {})
            /\ ~("G" \in horizontal /\ vertical \cap {"G", "y"} # {})
            /\ phase_type = "vertical_green_to_yellow" =>
                  vertical = {"y"} /\ horizontal = {"r"}

\* ------------------------------------------------------------------------
\* QueueGridPOEnv.get_state: the partial observation.  An entry of the
\* observation is a quotient, kept as the pair <<numerator, denominator>>
\* ------------------------------------------------------------------------
\* the speed limit and the length of every edge of the network
SpeedLimit == 2
EdgeLength == 10
\* where on its edge a vehicle is and how fast: queued, or driving
Kinematics == {[pos |-> 7, speed |-> 0], [pos |-> 3, speed |-> SpeedLimit]}

Quotient(a, b) == <<a, b>>

\* the entry [0] * diff appends
ZeroEntry == Quotient(0, 1)

\* the approaches of intersection i, as network.node_mapping lists them
NodeMapping(i) ==
    LET row == i \div cols
        col == i % cols
    IN  <<EdgeLabel("bot", row, col), EdgeLabel("right", row, col),
          EdgeLabel("top", row, col + 1), EdgeLabel("left", row + 1, col)>>

\* for _, edges in node_mapping: for edge in edges: the a-th edge visited
Approach(a) == NodeMapping((a - 1) \div 4)[((a - 1) % 4) + 1]
NumApproaches == 4 * num_traffic_lights

\* self.k.network.get_edge_list(): the road edges, type by type
EdgeList ==
    [k \in 1..(rows * (cols + 1)) |->
        EdgeLabel("bot", (k - 1) \div (cols + 1), (k - 1) % (cols + 1))]
    \o [k \in 1..(rows * (cols + 1)) |->
        EdgeLabel("top", (k - 1) \div (cols + 1), (k - 1) % (cols + 1))]
    \o [k \in 1..((rows + 1) * cols) |->
        EdgeLabel("left", (k - 1) \div cols, (k - 1) % cols)]
    \o [k \in 1..((rows + 1) * cols) |->
        EdgeLabel("right", (k - 1) \div cols, (k - 1) % cols)]

\* self.k.vehicle.get_ids_by_edge(edge)
IdsByEdge(vs, e) == {v \in DOMAIN vs : vs[v].edge = e}

VehIndex(v) == CHOOSE k \in 1..Len(VehOrder) : VehOrder[k] = v

RECURSIVE SortByDistance(_, _)
\* the vehicles of S, nearest to the end of their edge first
SortByDistance(vs, S) ==
    IF S = {} THEN <<>>
    ELSE LET first == CHOOSE v \in S : \A w \in S :
                          \/ vs[v].pos > vs[w].pos
                          \/ vs[v].pos = vs[w].pos
                                /\ VehIndex(v) <= VehIndex(w)
         IN  <<first>> \o SortByDistance(vs, S \ {first})

\* get_closest_to_intersection(edge, num_closest): at most num_closest
\* vehicles of the edge, by ascending distance to the intersection
ClosestToIntersection(vs, e, num_closest) ==
    LET ordered == SortByDistance(vs, IdsByEdge(vs, e))
    IN  SubSeq(ordered, 1,
               IF Len(ordered) < num_closest THEN Len(ordered)
               ELSE num_closest)

\* the entries of one approach without the zeros for its missing vehicles
Unpadded(entries) == entries

\* if len(observed_ids) < self.num_observed: append [0] * diff
Padded(entries) ==
    IF Len(entries) < num_observed
    THEN entries \o [j \in 1..(num_observed - Len(entries)) |-> ZeroEntry]
    ELSE entries

\* the entries one observed vehicle adds to the three lists
Speed(vs, v) == Quotient(vs[v].speed, SpeedLimit)
DistToIntersec(vs, v) == Quotient(EdgeLength - vs[v].pos, EdgeLength)
EdgeNumber(vs, v) == Quotient(SplitEdge(vs[v].edge), num_edges - 1)

\* the body of the loop for the a-th approach: what it appends to
\* all_observed_ids, speeds, dist_to_intersec and edge_number
ObserveApproach(vs, a) ==
    LET ids == ClosestToIntersection(vs, Approach(a), num_observed)
    IN  [observed_ids |-> ids,
         speeds |-> Padded([k \in 1..Len(ids) |-> Speed(vs, ids[k])]),
         dist_to_intersec |->
             Padded([k \in 1..Len(ids) |-> DistToIntersec(vs, ids[k])]),
         edge_number |->
             Padded([k \in 1..Len(ids) |-> EdgeNumber(vs, ids[k])])]

RECURSIVE Joined(_, _)
\* the lists of a field of seen, one after the other from the a-th on
Joined(lists, a) ==
    IF a > Len(lists) THEN <<>> ELSE lists[a] \o Joined(lists, a + 1)

RECURSIVE SumSpeeds(_, _)
SumSpeeds(vs, S) ==
    IF S = {} THEN 0
    ELSE LET v == CHOOSE v \in S : TRUE
         IN  vs[v].speed + SumSpeeds(vs, S \ {v})

\* density += [vehicle_length * len(ids) / edge_length], or [0]
Density(vs, edge_list) ==
    [k \in 1..Len(edge_list) |->
        LET ids == IdsByEdge(vs, edge_list[k])
        IN  IF Cardinality(ids) > 0
            THEN Quotient(5 * Cardinality(ids), EdgeLength)
            ELSE ZeroEntry]

\* velocity_avg += [mean of the speeds / max_speed], or [0]
VelocityAvg(vs, edge_list) ==
    [k \in 1..Len(edge_list) |->
        LET ids == IdsByEdge(vs, edge_list[k])
        IN  IF Cardinality(ids) > 0
            THEN Quotient(SumSpeeds(vs, ids), Cardinality(ids) * SpeedLimit)
            ELSE ZeroEntry]

\* array.flatten().tolist() of a per-intersection array
Flattened(array) ==
    [k \in 1..num_traffic_lights |-> Quotient(array[k - 1], 1)]

\* what get_state computes for the vehicles vs
PartialState(vs) ==
    LET seen == [a \in 1..NumApproaches |-> ObserveApproach(vs, a)]
        field(f) == [a \in 1..NumApproaches |-> seen[a][f]]
    IN  [observed_ids |-> Joined(field("observed_ids"), 1),
         state |-> Joined(field("speeds"), 1)
                     \o Joined(field("dist_to_intersec"), 1)
                     \o Joined(field("edge_number"), 1)
                     \o Density(vs, EdgeList) \o VelocityAvg(vs, EdgeList)
                     \o Flattened(last_change) \o Flattened(direction)
                     \o Flattened(currently_yellow)]

\* the shape of observation_space
ObservationShape ==
    3 * 4 * num_observed * num_traffic_lights
        + 2 * Len(EdgeList) + 3 * num_traffic_lights

\* get_state with the vehicles at vs
Observe(vs) ==
    LET result == PartialState(vs)
    IN  /\ vehicles' = vs
        /\ observed_ids' = result.observed_ids
        /\ observation' = result.state
        /\ UNCHANGED <<num_observed, env_class, placed, kernel_calls,
                       cmd_phase, gridVars, ctlVars, initVars, edgeVars,
                       phaseVars, nodeVars>>

\* get_state on the vehicles as they are
GetState == Observe(vehicles)

\* a step in which the simulator moves vehicle v into the junction, off
\* its approach, followed by get_state
StepAndGetState(v) ==
    /\ vehicles[v].edge # CenterLabel(0)
    /\ Observe([vehicles EXCEPT ![v].edge = CenterLabel(0)])

InitObs ==
    /\ rows \in 1..MaxObsLights
    /\ cols \in 1..MaxObsLights
    /\ rows * cols <= MaxObsLights
    /\ tl_type = "actuated"
    /\ discrete = FALSE
    /\ sim_step = 1
    /\ min_yellow_time = 1
    /\ min_switch_time = 1
    /\ last_change = [i \in Ids |-> 0]
    /\ direction = [i \in Ids |-> 0]
    /\ currently_yellow = [i \in Ids |-> 0]
    /\ phases = [i \in Ids |-> 0]
    /\ tl_state = [i \in Ids |-> "unset"]
    /\ tl_cmd = [i \in Ids |-> "none"]
    /\ constant_for = [i \in Ids |-> 0]
    /\ init_pc = "done"
    /\ init_x = 0
    /\ init_y = 0
    /\ written = {}
    /\ edge = <<>>
    /\ edge_num = 0
    /\ env_class = "QueueGridPOEnv"
    /\ vehicles \in [VehIds -> {[edge |-> e, pos |-> k.pos, speed |-> k.speed] :
                                    e \in ValidEdges, k \in Kinematics}]
    /\ placed = <<>>
    /\ kernel_calls = <<>>
    /\ cmd_phase = "placed"
    /\ NoPhaseRequest
    /\ num_observed \in 1..MaxNumObserved
    /\ observed_ids = <<>>
    /\ observation = <<>>
    /\ NoNodeQuery

NextObs == GetState \/ \E v \in VehIds : StepAndGetState(v)

SpecObs == InitObs /\ [][NextObs]_vars

\* C19: whatever the vehicles on each approach, the observation get_state
\* returns has the length of observation_space, 3 * 4 * num_observed * n
\* + 2 * (number of edges) + 3 * n, and in each of the speed, distance and
\* edge-number blocks every approach of every intersection has num_observed
\* slots: first those of its observed vehicles, then zeros.
C19_FixedLength ==
    observation # <<>> =>
        LET n == num_traffic_lights
            block == 4 * num_observed * n
        IN  /\ Len(observation)
                  = 3 * 4 * num_observed * n + 2 * Cardinality(RoadEdges)
                        + 3 * n
            /\ Len(observation) = ObservationShape
            /\ \A a \in 1..(4 * n) :
                  LET on == IdsByEdge(vehicles, Approach(a))
                      real == IF Cardinality(on) < num_observed
                              THEN Cardinality(on) ELSE num_observed
                      slot(b, k) ==
                          observation[b * block + (a - 1) * num_observed + k]
                  IN  \A k \in 1..num_observed :
                          IF k <= real
                          THEN \E v \in on :
                                  /\ slot(0, k) = Speed(vehicles, v)
                                  /\ slot(1, k) = DistToIntersec(vehicles, v)
                                  /\ slot(2, k) = EdgeNumber(vehicles, v)
                          ELSE /\ slot(0, k) = ZeroEntry
                               /\ slot(1, k) = ZeroEntry
                               /\ slot(2, k) = ZeroEntry

C19_Witness ==
    /\ observation # <<>>
    /\ num_observed = 2
    /\ vehicles["veh_0"].edge = Approach(1)
    /\ vehicles["veh_1"].edge = CenterLabel(0)
    /\ observation[1] = Speed(vehicles, "veh_0")
    /\ observation[2] = ZeroEntry
    /\ observed_ids = <<"veh_0">>


\* C21: a phase name that is none of the twelve supported ones makes
\* generate_tl_phases fail with an invalid-transition error; the function
\* returns no value, such as None, for it.
C21_UnsupportedPhaseRejected ==
    phase_type \in UnsupportedPhaseTypes =>
        /\ PhaseReturnKind(phase_type) = "InvalidTransitionError"
        /\ tl_phases # NoPhases

\* C22: the returned string is made of four segments in the order
\* vertical, horizontal, vertical, horizontal; a vertical segment has
\* vert_lanes + 2 characters, a horizontal one horiz_lanes + 2, and every
\* segment starts with 'g' or 'G'.
C22_SegmentLengths ==
    phase_type \in PhaseTypes =>
        LET seg == PhaseSegments(phase_type, horiz_lanes, vert_lanes)
        IN  /\ tl_phases = seg[1] \o seg[2] \o seg[3] \o seg[4]
            /\ Len(tl_phases) = 2 * (vert_lanes + 2) + 2 * (horiz_lanes + 2)
            /\ Len(seg[1]) = vert_lanes + 2
            /\ Len(seg[2]) = horiz_lanes + 2
            /\ Len(seg[3]) = vert_lanes + 2
            /\ Len(seg[4]) = horiz_lanes + 2
            /\ \A k \in 1..4 : seg[k][1] \in {"g", "G"}

\* ------------------------------------------------------------------------
\* _get_relative_node: the node number of the neighbour of an intersection
\* ------------------------------------------------------------------------
\* ":({}.{})".format(x_pos, y_pos)
AgentId(x_pos, y_pos) ==
    <<":", "(">> \o FormatInt(x_pos) \o <<".">> \o FormatInt(y_pos) \o <<")">>

\* c.isdigit() for one character
IsDigit(c) == \E d \in 1..10 : DigitChars[d] = c

\* [agent_id[i] for i in range(len(agent_id)) if agent_id[i].isdigit()]
AgentNodeCoords(id) == SelectSeq(id, IsDigit)

\* int(agent_node_coords[0])
AgentNodeX(id) == DigitValue(AgentNodeCoords(id)[1])

\* int(agent_node_coords[1])
AgentNodeY(id) == DigitValue(AgentNodeCoords(id)[2])

\* agent_id_num = (agent_node_x - 1) + (agent_node_y - 1) * self.cols
AgentIdNum(id) == (AgentNodeX(id) - 1) + (AgentNodeY(id) - 1) * cols

\* the if/elif chain over direction
RelativeNode(id, dir) ==
    LET agent_id_num == AgentIdNum(id)
    IN  CASE dir = "top" ->
                IF agent_id_num + cols >= cols * rows THEN -1
                ELSE agent_id_num + cols
          [] dir = "bottom" ->
                IF agent_id_num - cols < 0 THEN -1
                ELSE agent_id_num - cols
          [] dir = "left" ->
                IF agent_id_num % cols = 0 THEN -1
                ELSE agent_id_num - 1
          [] dir = "right" ->
                IF agent_id_num % cols = cols - 1 THEN -1
                ELSE agent_id_num + 1

\* one call of _get_relative_node for an intersection of the grid
GetRelativeNode(x_pos, y_pos, dir) ==
    /\ agent_id' = AgentId(x_pos, y_pos)
    /\ rel_direction' = dir
    /\ node' = RelativeNode(AgentId(x_pos, y_pos), dir)
    /\ UNCHANGED <<gridVars, ctlVars, initVars, edgeVars, rerouteVars,
                   phaseVars, obsVars>>

InitNode ==
    /\ rows \in 1..MaxNodeGrid
    /\ cols \in 1..MaxNodeGrid
    /\ tl_type = "actuated"
    /\ discrete = FALSE
    /\ sim_step = 1
    /\ min_yellow_time = 1
    /\ min_switch_time = 1
    /\ last_change = [i \in Ids |-> 0]
    /\ direction = [i \in Ids |-> 0]
    /\ currently_yellow = [i \in Ids |-> 0]
    /\ phases = [i \in Ids |-> 0]
    /\ tl_state = [i \in Ids |-> "unset"]
    /\ tl_cmd = [i \in Ids |-> "none"]
    /\ constant_for = [i \in Ids |-> 0]
    /\ init_pc = "done"
    /\ init_x = 0
    /\ init_y = 0
    /\ written = {}
    /\ edge = <<>>
    /\ edge_num = 0
    /\ NoTraffic
    /\ NoPhaseRequest
    /\ NoObservation
    /\ NoNodeQuery

NextNode ==
    \E x_pos \in 1..cols, y_pos \in 1..rows,
       dir \in {"top", "bottom", "left", "right"} :
        GetRelativeNode(x_pos, y_pos, dir)

SpecNode == InitNode /\ [][NextNode]_vars

\* the linear index of intersection (x, y), or -1 outside the grid
NeighbourIndex(x, y) ==
    IF 1 <= x /\ x <= cols /\ 1 <= y /\ y <= rows
    THEN (x - 1) + (y - 1) * cols
    ELSE -1

\* C26: for the id ":(x.y)" of an intersection of the grid,
\* _get_relative_node returns the linear index of the neighbour in the
\* given direction, and -1 where the grid has no such neighbour.
C26_RelativeNode ==
    \A x \in 1..cols : \A y \in 1..rows :
        agent_id = AgentId(x, y) =>
            node = CASE rel_direction = "top" -> NeighbourIndex(x, y + 1)
                     [] rel_direction = "bottom" -> NeighbourIndex(x, y - 1)
                     [] rel_direction = "left" -> NeighbourIndex(x - 1, y)
                     [] rel_direction = "right" -> NeighbourIndex(x + 1, y)

\* ------------------------------------------------------------------------
\* Properties of the controller (checked under Spec)
\* ------------------------------------------------------------------------
IsGreenState(st) == st \in {"GrGr", "rGrG"}
IsYellowState(st) == st \in {"yryr", "ryry"}

\* the flow direction a signal string serves: 0 vertical, 1 horizontal
SignalDirection(st) ==
    IF st \in {PHASE_NUM_TO_STR[0], "GrGr", "yryr"} THEN 0 ELSE 1

\* the configurations in which the threshold read by the step equals the
\* configured switch_time
ThresholdIsSwitchTime == min_switch_time = min_yellow_time

YellowEnds(i) == currently_yellow[i] = 1 /\ currently_yellow'[i] = 0
YellowBegins(i) == currently_yellow[i] = 0 /\ currently_yellow'[i] = 1

\* C1: a yellow phase never ends while its dwell time is below
\* min_yellow_time, and it ends at the first step at which the dwell time
\* has reached min_yellow_time.
C1_YellowEndsAtMinYellowTime ==
    [][\A i \in Ids :
        currently_yellow[i] = 1 =>
            (currently_yellow'[i] = 0 <=> last_change'[i] >= min_yellow_time)
      ]_vars

\* C2: dwell_time is never negative, strictly increases on every step that
\* keeps the phase, and is exactly 0 after every step that changes the phase.
C2_DwellTimeIncreasesAndResets ==
    \A i \in Ids : \A action \in {0, 1} :
        LET s == IntersectionState(i)
            n == StepIntersection(s, action)
        IN  /\ s.last_change >= 0
            /\ n.last_change >= 0
            /\ n.currently_yellow = s.currently_yellow
                   => n.last_change > s.last_change
            /\ n.currently_yellow # s.currently_yellow
                   => n.last_change = 0

\* C3: the yellow shown when a green phase is left belongs to the direction
\* that was green, and the green commanded when that yellow ends belongs to
\* the other direction: the green before a yellow never follows it again.
C3_NoRepeat ==
    [][\A i \in Ids :
        /\ YellowBegins(i) =>
              /\ IsYellowState(tl_state'[i])
              /\ SignalDirection(tl_state'[i]) = SignalDirection(tl_state[i])
        /\ YellowEnds(i) =>
              /\ IsYellowState(tl_state[i])
              /\ IsGreenState(tl_state'[i])
              /\ tl_cmd'[i] = tl_state'[i]
              /\ SignalDirection(tl_state'[i]) # SignalDirection(tl_state[i])
      ]_vars

\* a yellow phase has just ended with a new green command
C3_Witness ==
    \E i \in Ids : currently_yellow[i] = 0 /\ tl_cmd[i] = "rGrG"

RECURSIVE NoOpSteps(_, _)
\* k further steps with action bit 0
NoOpSteps(s, k) ==
    IF k = 0 THEN s ELSE NoOpSteps(StepIntersection(s, 0), k - 1)

IsInitialState(s) ==
    /\ s.last_change = 0
    /\ s.direction = 0
    /\ s.currently_yellow = 0
    /\ s.tl_state = PHASE_NUM_TO_STR[0]

\* C4: from the initial state one action bit 1 gives vertical yellow with
\* dwell_time 0, and min_yellow_time further steps with action bit 0 give
\* horizontal green with dwell_time 0 and is_yellow false (stated for the
\* configurations whose threshold is the configured switch_time).
C4_InitialScenario ==
    \A i \in Ids :
        (ThresholdIsSwitchTime /\ IsInitialState(IntersectionState(i))) =>
            LET s1 == StepIntersection(IntersectionState(i), 1)
                s2 == NoOpSteps(s1, min_yellow_time)
            IN  /\ s1.currently_yellow = 1
                /\ s1.tl_state = "yryr"
                /\ s1.last_change = 0
                /\ s2.currently_yellow = 0
                /\ s2.tl_state = "rGrG"
                /\ s2.last_change = 0

\* C5: in a yellow state the step with action bit 0 and the step with
\* action bit 1 give the same successor and the same command.
C5_ActionIgnoredWhileYellow ==
    \A i \in Ids :
        currently_yellow[i] = 1 =>
            StepIntersection(IntersectionState(i), 0)
                = StepIntersection(IntersectionState(i), 1)

\* a yellow intersection at the step on which its yellow phase ends
C5_Witness ==
    \E i \in Ids :
        /\ currently_yellow[i] = 1
        /\ last_change[i] > 0
        /\ YellowExpired(IntersectionState(i))

\* C6: leaving green sets is_yellow and dwell_time 0 and keeps
\* flow_direction; flow_direction changes only when a yellow phase ends; a
\* step that stays green keeps flow_direction.
C6_DirectionKeptUntilYellowEnds ==
    [][\A i \in Ids :
        /\ YellowBegins(i) =>
              last_change'[i] = 0 /\ direction'[i] = direction[i]
        /\ direction'[i] # direction[i] => YellowEnds(i)
        /\ (currently_yellow[i] = 0 /\ currently_yellow'[i] = 0) =>
              direction'[i] = direction[i] /\ tl_state'[i] = tl_state[i]
      ]_vars

\* C7: between two consecutive signal changes made by the controller at
\* least switch_time of simulated time elapses, for green as for yellow
\* (stated for the configurations whose threshold is the configured
\* switch_time).
C7_MinimumSwitchTime ==
    [][\A i \in Ids :
        (ThresholdIsSwitchTime /\ tl_state'[i] # tl_state[i]
            /\ (IsGreenState(tl_state[i]) \/ IsYellowState(tl_state[i])))
        => constant_for[i] + sim_step >= min_yellow_time
      ]_vars

\* C17: with a discrete action space every action a in 0 .. 2^n - 1 is
\* decoded to a mask of exactly n entries, and the entry of intersection i
\* is bit n-1-i of a: the most significant bit controls intersection 0.
C17_DiscreteDecode ==
    discrete =>
        \A a \in RlActions :
            /\ a \in 0..(2 ^ num_traffic_lights - 1)
            /\ Len(RlMask(a)) = num_traffic_lights
            /\ \A i \in Ids :
                  RlMask(a)[i + 1]
                      = (a \div (2 ^ (num_traffic_lights - 1 - i))) % 2

C17_Witness ==
    /\ discrete
    /\ num_traffic_lights = 2
    /\ tl_cmd[0] = "none" /\ IsGreenState(tl_state[0])
    /\ tl_cmd[1] = "yryr" /\ last_change[1] = 0

\* C18: for a continuous action vector the components _apply_rl_actions
\* takes for a switch are exactly the components the penalty of
\* compute_reward counts.
C18_PenaltyMatchesSwitch ==
    ~discrete =>
        \A v \in RlActions : \A j \in 1..Len(v) :
            ContinuousMask(v)[j] = PenaltyMask(v)[j]

\* C23: in a step a command is sent for an intersection exactly when its
\* signal changes, the command is the new signal, and the signal moves by
\* one phase only: a yellow that ends gives green, whatever the action bit.
C23_CommandIffPhaseChange ==
    [][\A i \in Ids :
        /\ (tl_cmd'[i] # "none") <=> (tl_state'[i] # tl_state[i])
        /\ tl_cmd'[i] # "none" => tl_cmd'[i] = tl_state'[i]
        /\ (IsYellowState(tl_state[i]) /\ tl_state'[i] # tl_state[i]) =>
              IsGreenState(tl_state'[i]) /\ currently_yellow'[i] = 0
        /\ (~IsYellowState(tl_state[i]) /\ tl_state'[i] # tl_state[i]) =>
              IsYellowState(tl_state'[i]) /\ currently_yellow'[i] = 1
      ]_vars

\* one step ended the yellow of intersection 0 and began that of 1
C23_Witness ==
    /\ discrete
    /\ num_traffic_lights = 2
    /\ tl_cmd[0] = "rGrG" /\ currently_yellow[0] = 0
    /\ tl_cmd[1] = "yryr" /\ currently_yellow[1] = 1

\* the signal that follows st in the cycle yryr, rGrG, ryry, GrGr; the
\* initial vertical green is followed as GrGr is
CycleSuccessor(st) ==
    CASE st \in {PHASE_NUM_TO_STR[0], "GrGr"} -> "yryr"
      [] st = "yryr" -> "rGrG"
      [] st = "rGrG" -> "ryry"
      [] st = "ryry" -> "GrGr"

\* C24: the signals sent for an intersection that starts with direction 0
\* and not yellow follow the cycle yryr, rGrG, ryry, GrGr from its start.
C24_SignalCycle ==
    [][\A i \in Ids :
        tl_state'[i] # tl_state[i] =>
            /\ tl_state'[i] = CycleSuccessor(tl_state[i])
            /\ tl_cmd'[i] = CycleSuccessor(tl_state[i])
      ]_vars

\* an intersection has gone through the whole cycle
C24_Witness ==
    \E i \in Ids :
        tl_cmd[i] = "GrGr" /\ direction[i] = 0 /\ currently_yellow[i] = 0

\* C25: the traffic-light part of the observation lies within the bounds
\* 0 and 1 of observation_space; the dwell timer never exceeds 1.  (A tick
\* of the model is a second: switch_time defaults to 2.0.)
C25_TrafficLightStateInBounds ==
    ThresholdIsSwitchTime =>
        \A k \in 1..(3 * num_traffic_lights) :
            0 <= TrafficLightState[k] /\ TrafficLightState[k] <= ObservationHigh

\* the number PHASE_NUM_TO_STR gives the phase a signal string shows
PhaseOfSignal(st) ==
    CASE st \in {PHASE_NUM_TO_STR[0], "GrGr"} -> 0
      [] st = "yryr" -> 6
      [] st = "rGrG" -> 1
      [] st = "ryry" -> 7

\* C27: phases holds for every intersection the number of the phase it is
\* in: 0 vertical green, 6 vertical yellow, 1 horizontal green, 7
\* horizontal yellow, as the last signal command shows it.
C27_PhasesTrackSignal ==
    \A i \in Ids :
        /\ phases[i] = PhaseOfSignal(tl_state[i])
        /\ (phases[i] \in {6, 7}) <=> (currently_yellow[i] = 1)

====
